---- MODULE Spec2Model ----
(***************************************************************************)
(* A model of generate_strudel_manifest.py: the gitignore-subset matcher,  *)
(* the tree scanner, the tree hash, the manifest builder and the           *)
(* regenerate/archive state machine of main.                               *)
(*                                                                         *)
(* A Python str is a sequence of one-character strings; a pathlib.Path is  *)
(* the sequence of its parts (segments).                                   *)
(***************************************************************************)
EXTENDS Integers, Sequences, FiniteSets, TLC

VARIABLES
  files,       \* the tree: the relative paths of the files other than the tool's own
  content,     \* the tree: file -> the version of its bytes and mtime
  gitignore,   \* .gitignore: whether it exists, and its lines
  manifest,    \* strudel.json: whether it exists, and its content
  hashfile,    \* .manifest_hash: whether it exists, is readable, and its text
  archive,     \* .archive-manifests: file name -> content
  clock,       \* the wall clock, in seconds
  pc,          \* per invocation of main: where it stands
  cur,         \* per invocation: its local current_hash
  result,      \* per invocation: how its last run ended
  snap,        \* per invocation: the files as its last run found them (history)
  hist,        \* the complete runs since the last outside change (history)
  m_path,      \* matcher: the rel_path argument
  m_patterns,  \* matcher: the patterns argument
  m_verdict,   \* matcher: the value returned
  m_done,      \* matcher: whether matches_patterns was called
  scanned,     \* builder: the paths iter_all_files yielded
  built,       \* builder: the mappings build_manifest returned, call by call
  s_done,      \* scanner: whether iter_all_files was run through
  hashed       \* hasher: the hashes compute_tree_hash returned, and over which walks

vars == << files, content, gitignore, manifest, hashfile, archive, clock, pc, cur, result,
           snap, hist, m_path, m_patterns, m_verdict, m_done, scanned, built,
           s_done, hashed >>

storeVars == << content, manifest, hashfile, archive, clock, pc, cur, result, snap, hist >>
matchVars == << m_path, m_patterns, m_verdict, m_done >>
buildVars == << scanned, built, s_done, hashed >>

\* ------------------------------------------------------------------ text

\* The characters the model uses, in code-point (ASCII) order; a character's
\* position is its rank, so comparing ranks is comparing code points.
Ascii ==
  << "\n", " ", "!", "#", "*", "-", ".", "/",
     "0", "1", "2", "3", "4", "5", "6", "7", "8", "9", ":", "?",
     "A", "B", "C", "D", "E", "F", "G", "H", "I", "J", "K", "L", "M",
     "N", "O", "P", "Q", "R", "S", "T", "U", "V", "W", "X", "Y", "Z",
     "_",
     "a", "b", "c", "d", "e", "f", "g", "h", "i", "j", "k", "l", "m",
     "n", "o", "p", "q", "r", "s", "t", "u", "v", "w", "x", "y", "z" >>

Code(c) == CHOOSE i \in 1..Len(Ascii) : Ascii[i] = c

UpperLetters ==
  << "A", "B", "C", "D", "E", "F", "G", "H", "I", "J", "K", "L", "M",
     "N", "O", "P", "Q", "R", "S", "T", "U", "V", "W", "X", "Y", "Z" >>

LowerLetters ==
  << "a", "b", "c", "d", "e", "f", "g", "h", "i", "j", "k", "l", "m",
     "n", "o", "p", "q", "r", "s", "t", "u", "v", "w", "x", "y", "z" >>

\* str.lower() / str.casefold() of one character (they agree on ASCII).
LowerChar(c) ==
  IF \E i \in 1..Len(UpperLetters) : UpperLetters[i] = c
    THEN LowerLetters[CHOOSE i \in 1..Len(UpperLetters) : UpperLetters[i] = c]
    ELSE c

\* str.lower(), used on the suffix by build_manifest.
Lower(s) == [i \in 1..Len(s) |-> LowerChar(s[i])]

\* str.casefold(), the sort key of build_manifest.
Casefold(s) == [i \in 1..Len(s) |-> LowerChar(s[i])]

\* Python's str "<": lexicographic by code point, a proper prefix first.
RECURSIVE StrLess(_, _)
StrLess(a, b) ==
  IF b = <<>> THEN FALSE
  ELSE IF a = <<>> THEN TRUE
  ELSE IF Head(a) = Head(b) THEN StrLess(Tail(a), Tail(b))
  ELSE Code(Head(a)) < Code(Head(b))

StartsWith(s, pre) ==
  Len(pre) <= Len(s) /\ SubSeq(s, 1, Len(pre)) = pre

EndsWith(s, suf) ==
  Len(suf) <= Len(s) /\ SubSeq(s, Len(s) - Len(suf) + 1, Len(s)) = suf

Whitespace == {" ", "\n"}

\* str.strip(): leading and trailing whitespace removed.
RECURSIVE LStrip(_)
LStrip(s) ==
  IF s # <<>> /\ Head(s) \in Whitespace THEN LStrip(Tail(s)) ELSE s

RECURSIVE RStrip(_)
RStrip(s) ==
  IF s # <<>> /\ s[Len(s)] \in Whitespace
    THEN RStrip(SubSeq(s, 1, Len(s) - 1)) ELSE s

Strip(s) == RStrip(LStrip(s))

\* str.rstrip("/")
RECURSIVE RStripSlash(_)
RStripSlash(s) ==
  IF s # <<>> /\ s[Len(s)] = "/"
    THEN RStripSlash(SubSeq(s, 1, Len(s) - 1)) ELSE s

\* Path.as_posix(): the parts joined by "/".
RECURSIVE AsPosix(_)
AsPosix(path) ==
  IF path = <<>> THEN <<>>
  ELSE IF Len(path) = 1 THEN path[1]
  ELSE path[1] \o <<"/">> \o AsPosix(Tail(path))

\* fnmatch.fnmatch(name, pat) on POSIX (normcase is the identity): "*" is
\* any run of characters ("/" included), "?" is any one character, anything
\* else is itself.  Character classes ("[...]") are outside the alphabet.
RECURSIVE fnmatch(_, _)
fnmatch(name, pat) ==
  IF pat = <<>> THEN name = <<>>
  ELSE IF Head(pat) = "*"
    THEN fnmatch(name, Tail(pat)) \/ (name # <<>> /\ fnmatch(Tail(name), pat))
  ELSE IF Head(pat) = "?"
    THEN name # <<>> /\ fnmatch(Tail(name), Tail(pat))
  ELSE name # <<>> /\ Head(name) = Head(pat) /\ fnmatch(Tail(name), Tail(pat))

\* ------------------------------------------------------- program constants

BASE_URL ==
  <<"h", "t", "t", "p", "s", ":", "/", "/", "r", "a", "w", ".", "g", "i", "t", "h", "u", "b", "u", "s", "e", "r", "c", "o", "n", "t", "e", "n", "t">>
  \o <<".", "c", "o", "m", "/", "r", "o", "r", "a", "d", "s", "/", "s", "t", "r", "u", "d", "e", "l", "_", "w", "a", "x", "/", "m", "a", "i", "n", "/">>
BASE_KEY == <<"_", "b", "a", "s", "e">>
MANIFEST_FILENAME == <<"s", "t", "r", "u", "d", "e", "l", ".", "j", "s", "o", "n">>
ARCHIVE_DIRNAME == <<".", "a", "r", "c", "h", "i", "v", "e", "-", "m", "a", "n", "i", "f", "e", "s", "t", "s">>
HASH_FILENAME == <<".", "m", "a", "n", "i", "f", "e", "s", "t", "_", "h", "a", "s", "h">>
GITIGNORE_FILENAME == <<".", "g", "i", "t", "i", "g", "n", "o", "r", "e">>
WAV_SUFFIX == <<".", "w", "a", "v">>

\* ------------------------------------------------------------- matching

\* is_hidden(path): some part starts with ".".
is_hidden(path) ==
  \E i \in 1..Len(path) : StartsWith(path[i], <<".">>)

\* load_gitignore_patterns: the stripped lines of .gitignore that are neither
\* blank nor comments; no file, no patterns.
RECURSIVE FilterLines(_)
FilterLines(lines) ==
  IF lines = <<>> THEN <<>>
  ELSE LET line == Strip(Head(lines)) IN
       IF line = <<>> \/ StartsWith(line, <<"#">>)
         THEN FilterLines(Tail(lines))
         ELSE <<line>> \o FilterLines(Tail(lines))

load_gitignore_patterns(gi) ==
  IF ~gi.exists THEN <<>> ELSE FilterLines(gi.lines)

\* PatternMatches with a directory pattern taken as a bare string prefix, the
\* "/" after it forgotten.
PatternMatches_LoosePrefix(s, parts, p) ==
  IF EndsWith(p, <<"/">>)
    THEN LET p_match == RStripSlash(p) IN
         s = p_match \/ StartsWith(s, p_match)
  ELSE IF StartsWith(p, <<"/">>)
    THEN fnmatch(<<"/">> \o s, p)
  ELSE fnmatch(s, p) \/ \E i \in 1..Len(parts) : fnmatch(parts[i], p)

\* PatternMatches with an anchored pattern tried, its "/" taken off, on the
\* path and on every segment like an unanchored one.
PatternMatches_AnchorDropped(s, parts, p) ==
  IF EndsWith(p, <<"/">>)
    THEN LET p_match == RStripSlash(p) IN
         s = p_match \/ StartsWith(s, p_match \o <<"/">>)
  ELSE IF StartsWith(p, <<"/">>)
    THEN fnmatch(s, Tail(p)) \/ \E i \in 1..Len(parts) : fnmatch(parts[i], Tail(p))
  ELSE fnmatch(s, p) \/ \E i \in 1..Len(parts) : fnmatch(parts[i], p)

\* One pattern of matches_patterns against the posix path s: whether it
\* matches (lines 59-74), after the "!" is taken off.
PatternMatches(s, parts, p) ==
  IF EndsWith(p, <<"/">>)
    THEN LET p_match == RStripSlash(p) IN
         s = p_match \/ StartsWith(s, p_match \o <<"/">>)
  ELSE IF StartsWith(p, <<"/">>)
    THEN fnmatch(<<"/">> \o s, p)
  ELSE fnmatch(s, p) \/ \E i \in 1..Len(parts) : fnmatch(parts[i], p)

\* The loop of matches_patterns: the first pattern that matches returns.
RECURSIVE MatchLoop(_, _, _)
MatchLoop(s, parts, patterns) ==
  IF patterns = <<>> THEN FALSE
  ELSE LET pat == Head(patterns)
           negated == StartsWith(pat, <<"!">>)
           p == IF negated THEN Tail(pat) ELSE pat
       IN IF PatternMatches(s, parts, p)
            THEN ~negated
            ELSE MatchLoop(s, parts, Tail(patterns))

matches_patterns(rel_path, patterns) ==
  MatchLoop(AsPosix(rel_path), rel_path, patterns)

\* --------------------------------------------------------------- scanning

\* All orders in which a finite set can be listed (os.listdir's order is the
\* file system's).
RECURSIVE PermsOf(_)
PermsOf(S) ==
  IF S = {} THEN {<<>>}
  ELSE UNION {{<<x>> \o p : p \in PermsOf(S \ {x})} : x \in S}

IsUnder(f, rel_dir) ==
  Len(f) > Len(rel_dir) /\ SubSeq(f, 1, Len(rel_dir)) = rel_dir

\* os.walk's filenames and dirnames of rel_dir, in a tree given by the set
\* of its files' relative paths.
FileNames(paths, rel_dir) ==
  {f \in paths : IsUnder(f, rel_dir) /\ Len(f) = Len(rel_dir) + 1}

DirNames(paths, rel_dir) ==
  {SubSeq(f, 1, Len(rel_dir) + 1) :
     f \in {g \in paths : IsUnder(g, rel_dir) /\ Len(g) > Len(rel_dir) + 1}}

\* PrunedDirs with the matches_patterns test of line 90 left out.
PrunedDirs_HiddenOnly(paths, rel_dir, patterns) ==
  {d \in DirNames(paths, rel_dir) : ~is_hidden(d)}

\* Lines 85-93: the subdirectories os.walk descends into.
PrunedDirs(paths, rel_dir, patterns) ==
  {d \in DirNames(paths, rel_dir) :
     ~is_hidden(d) /\ ~matches_patterns(d, patterns)}

\* Lines 95-101: the files of rel_dir that are yielded.
YieldedFiles(paths, rel_dir, patterns) ==
  {f \in FileNames(paths, rel_dir) :
     ~is_hidden(f) /\ ~matches_patterns(f, patterns)}

\* iter_all_files: every sequence the generator can yield.  os.walk is
\* top-down: a directory's files first, then each kept subdirectory in turn,
\* both in the file system's order.
RECURSIVE WalkFrom(_, _, _), WalkDirs(_, _, _)
WalkFrom(paths, rel_dir, patterns) ==
  {fs \o rest :
     fs \in PermsOf(YieldedFiles(paths, rel_dir, patterns)),
     rest \in UNION {WalkDirs(paths, ds, patterns) :
                       ds \in PermsOf(PrunedDirs(paths, rel_dir, patterns))}}

WalkDirs(paths, dirs, patterns) ==
  IF dirs = <<>> THEN {<<>>}
  ELSE {a \o b : a \in WalkFrom(paths, Head(dirs), patterns),
                 b \in WalkDirs(paths, Tail(dirs), patterns)}

iter_all_files(paths, patterns) == WalkFrom(paths, <<>>, patterns)

\* ---------------------------------------------------------------- sorting

\* list.sort(key=...) / sorted(): a stable sort; x goes after every element
\* whose key is not greater.
\* The sort key: the string itself (sorted()) or its casefold
\* (sort(key=lambda s: s.casefold())).
KeyOf(x, fold) == IF fold THEN Casefold(x) ELSE x

RECURSIVE InsertByKey(_, _, _)
InsertByKey(x, sorted, fold) ==
  IF sorted = <<>> THEN <<x>>
  ELSE IF StrLess(KeyOf(x, fold), KeyOf(Head(sorted), fold))
    THEN <<x>> \o sorted
    ELSE <<Head(sorted)>> \o InsertByKey(x, Tail(sorted), fold)

RECURSIVE SortByKey(_, _)
SortByKey(seq, fold) ==
  IF seq = <<>> THEN <<>>
  ELSE InsertByKey(seq[Len(seq)],
                   SortByKey(SubSeq(seq, 1, Len(seq) - 1), fold), fold)

\* sorted(seq) on strings.
Sorted(seq) == SortByKey(seq, FALSE)

\* seq.sort(key=lambda s: s.casefold())
SortCasefold(seq) == SortByKey(seq, TRUE)

\* ---------------------------------------------------------------- hashing

\* hashlib.md5: the digest stands for the bytes that were fed (MD5 taken as
\* collision-free); two digests are equal exactly when the bytes are.
\* A hash string is the digest followed by whatever trails it (the "\n" that
\* write_stored_hash appends); None is its own value.
HexDigest(bytes) == [kind |-> "hex", md5 |-> bytes, tail |-> <<>>]

RECURSIVE FeedPaths(_)
FeedPaths(rel_paths) ==
  IF rel_paths = <<>> THEN <<>>
  ELSE Head(rel_paths) \o <<"\n">> \o FeedPaths(Tail(rel_paths))

\* compute_tree_hash reading the files too: the version of each file's bytes
\* goes into the digest after the path names.
RECURSIVE SumVersions(_)
SumVersions(walk) ==
  IF walk = <<>> THEN 0
  ELSE (IF Head(walk) \in DOMAIN content THEN content[Head(walk)]
        ELSE IF Head(walk) = <<MANIFEST_FILENAME>> THEN Len(manifest.data.trailing)
        ELSE 0) + SumVersions(Tail(walk))

compute_tree_hash_WithContent(walk) ==
  HexDigest(FeedPaths(Sorted([i \in 1..Len(walk) |-> AsPosix(walk[i])]))
            \o <<Ascii[Code("0") + SumVersions(walk)]>>)

\* compute_tree_hash with the sorted() forgotten.
compute_tree_hash_Unsorted(walk) ==
  HexDigest(FeedPaths([i \in 1..Len(walk) |-> AsPosix(walk[i])]))

\* compute_tree_hash over one traversal of iter_all_files.
compute_tree_hash(walk) ==
  LET rel_paths == Sorted([i \in 1..Len(walk) |-> AsPosix(walk[i])])
  IN HexDigest(FeedPaths(rel_paths))

\* --------------------------------------------------------------- manifest

\* PurePath.suffix of the last part (Python 3.12).
RECURSIVE RFindDot(_)
RFindDot(name) ==
  IF name = <<>> THEN 0
  ELSE IF name[Len(name)] = "." THEN Len(name)
  ELSE RFindDot(SubSeq(name, 1, Len(name) - 1))

Suffix(path) ==
  LET name == path[Len(path)]
      i == RFindDot(name)
  IN IF 1 < i /\ i < Len(name) THEN SubSeq(name, i, Len(name)) ELSE <<>>

\* An OrderedDict is the sequence of its <<key, value>> items; a value is a
\* str or a list of str.
StrVal(s) == [kind |-> "str", str |-> s, list |-> <<>>]
ListVal(l) == [kind |-> "list", str |-> <<>>, list |-> l]

HasKey(od, k) == \E i \in 1..Len(od) : od[i][1] = k

\* od[k] = v: a new key goes last, an old key keeps its place.
SetItem(od, k, v) ==
  IF HasKey(od, k)
    THEN [i \in 1..Len(od) |-> IF od[i][1] = k THEN <<k, v>> ELSE od[i]]
    ELSE Append(od, <<k, v>>)

GetItem(od, k) == od[CHOOSE i \in 1..Len(od) : od[i][1] = k][2]

Keys(od) == [i \in 1..Len(od) |-> od[i][1]]

\* The filter with the .lower() forgotten.
IsWav_CaseSensitive(p) == Suffix(p) = WAV_SUFFIX

\* Line 121: the extension filter.
IsWav(p) == Lower(Suffix(p)) = WAV_SUFFIX

\* Lines 120-132: the loop over one traversal that fills per_dir.
RECURSIVE CollectPerDir(_, _)
CollectPerDir(walk, per_dir) ==
  IF walk = <<>> THEN per_dir
  ELSE LET p == Head(walk)
           top == p[1]
       IN IF ~IsWav(p) \/ Len(p) < 2 \/ StartsWith(top, <<".">>)
            THEN CollectPerDir(Tail(walk), per_dir)
            ELSE CollectPerDir(Tail(walk),
                   SetItem(per_dir, top,
                     IF HasKey(per_dir, top)
                       THEN Append(GetItem(per_dir, top), AsPosix(p))
                       ELSE <<AsPosix(p)>>))

\* Lines 139-143: "_base" first, then every directory in sorted order.
RECURSIVE FillOrdered(_, _, _)
FillOrdered(ordered, dirnames, per_dir) ==
  IF dirnames = <<>> THEN ordered
  ELSE FillOrdered(
         SetItem(ordered, Head(dirnames),
                 ListVal(SortCasefold(GetItem(per_dir, Head(dirnames))))),
         Tail(dirnames), per_dir)

\* build_manifest over one traversal of iter_all_files.
build_manifest(walk, base_url) ==
  LET per_dir == CollectPerDir(walk, <<>>)
      ordered == SetItem(<<>>, BASE_KEY, StrVal(base_url))
  IN FillOrdered(ordered, Sorted(Keys(per_dir)), per_dir)

\* ------------------------------------------------------------- the inputs
\* The relative paths and the .gitignore lines the model draws its trees and
\* pattern lists from.
F_Kick1 == <<<<"k", "i", "c", "k", "s">>, <<"K", "i", "c", "k", "1", ".", "w", "a", "v">>>>
F_kick2 == <<<<"k", "i", "c", "k", "s">>, <<"k", "i", "c", "k", "2", ".", "W", "A", "V">>>>
F_Snare == <<<<"s", "n", "a", "r", "e", "s">>, <<"S", "n", "a", "r", "e", ".", "w", "a", "v">>>>
F_readme == <<<<"r", "e", "a", "d", "m", "e", ".", "w", "a", "v">>>>
F_tmpx == <<<<"t", "m", "p">>, <<"x", ".", "w", "a", "v">>>>
F_keep == <<<<"k", "e", "e", "p", ".", "w", "a", "v">>>>
F_skip == <<<<"s", "k", "i", "p", ".", "w", "a", "v">>>>
F_basex == <<<<"_", "b", "a", "s", "e">>, <<"x", ".", "w", "a", "v">>>>
F_kA == <<<<"k", "i", "c", "k", "s">>, <<"A", ".", "w", "a", "v">>>>
F_ka == <<<<"k", "i", "c", "k", "s">>, <<"a", ".", "w", "a", "v">>>>
F_notes == <<<<"k", "i", "c", "k", "s">>, <<"n", "o", "t", "e", "s", ".", "t", "x", "t">>>>
F_hid == <<<<".", "c", "a", "c", "h", "e">>, <<"h", ".", "w", "a", "v">>>>
F_secret == <<<<"s", "e", "c", "r", "e", "t", ".", "t", "x", "t">>>>
F_nsecret == <<<<"n", "e", "s", "t", "e", "d">>, <<"s", "e", "c", "r", "e", "t", ".", "t", "x", "t">>>>
F_buildf == <<<<"b", "u", "i", "l", "d">>, <<"s", "u", "b">>, <<"f", ".", "w", "a", "v">>>>
F_build2g == <<<<"b", "u", "i", "l", "d", "2">>, <<"g", ".", "w", "a", "v">>>>

P_wav == <<"*", ".", "w", "a", "v">>
P_notkeep == <<"!", "k", "e", "e", "p", ".", "w", "a", "v">>
P_tmp == <<"t", "m", "p", "/">>
P_build == <<"b", "u", "i", "l", "d", "/">>
P_secret == <<"/", "s", "e", "c", "r", "e", "t", ".", "t", "x", "t">>
P_manifest == <<"s", "t", "r", "u", "d", "e", "l", ".", "j", "s", "o", "n">>
P_kicks == <<"k", "i", "c", "k", "s">>
P_notkicks == <<"!", "k", "i", "c", "k", "s", "/">>
P_q == <<"?", "e", "e", "p", ".", "w", "a", "v">>
P_notf == <<"!", "f", ".", "w", "a", "v">>
P_roottxt == <<"/", "*", ".", "t", "x", "t">>
P_sub == <<"s", "u", "b">>
L_comment == <<"#", " ", "s", "a", "m", "p", "l", "e", "s">>
L_blank == <<" ">>
L_tmp == <<" ", "t", "m", "p", "/", " ">>

\* ---------------------------------------------------------------- bounds

MaxPatterns == 2
MaxBuildFiles == 5
MaxClock == 1
MaxHist == 3
MaxScanFiles == 3
MaxHashFiles == 4

\* ------------------------------------------------------------ file values

NoGitignore == [exists |-> FALSE, lines |-> <<>>]
Gitignore(lines) == [exists |-> TRUE, lines |-> lines]

\* json.dump(manifest, f, indent=2, ensure_ascii=False); f.write("\n"): the
\* text is the mapping's items in order, then a newline.
JsonText(mapping) == [json |-> mapping, trailing |-> <<"\n">>]
NoText == [json |-> <<>>, trailing |-> <<>>]

NoManifest == [exists |-> FALSE, data |-> NoText]
ManifestFile(data) == [exists |-> TRUE, data |-> data]

PyNone == [kind |-> "none", md5 |-> <<>>, tail |-> <<>>]
NoHashFile == [exists |-> FALSE, readable |-> FALSE, text |-> PyNone]
HashFile(text) == [exists |-> TRUE, readable |-> TRUE, text |-> text]
\* A file whose bytes do not decode: read_text raises.
CorruptHashFile == [exists |-> TRUE, readable |-> FALSE, text |-> PyNone]

Procs == {1, 2}

\* What a run found when it started, what it computed, and what it did.
NoSnap ==
  [taken |-> FALSE, manifest |-> NoManifest, hashfile |-> NoHashFile,
   archive |-> <<>>, current |-> PyNone, name |-> <<>>, moved |-> FALSE,
   archiveFailed |-> FALSE, killedAt |-> "", orphaned |-> FALSE,
   overlapped |-> FALSE, overwrote |-> FALSE, edited |-> FALSE,
   afterEdit |-> FALSE]

\* The files that come and go in the tree the store is run on.
StoreUniverse == { F_Kick1, F_readme }

FreshContent == [f \in StoreUniverse |-> 0]

StoreAtRest ==
  /\ content = FreshContent
  /\ manifest = NoManifest
  /\ hashfile = NoHashFile
  /\ archive = <<>>
  /\ clock = 0
  /\ pc = [i \in Procs |-> "idle"]
  /\ cur = [i \in Procs |-> PyNone]
  /\ result = [i \in Procs |-> "none"]
  /\ snap = [i \in Procs |-> NoSnap]
  /\ hist = <<>>

MatchAtRest ==
  /\ m_path = <<>>
  /\ m_patterns = <<>>
  /\ m_verdict = FALSE
  /\ m_done = FALSE

NoHashes == [hashes |-> <<>>, first |-> <<>>, differ |-> FALSE]

BuildAtRest ==
  /\ scanned = {}
  /\ built = <<>>
  /\ s_done = FALSE
  /\ hashed = NoHashes

\* ------------------------------------------------- the matcher, on its own

MatchPaths ==
  { F_keep, F_skip, F_secret, F_nsecret, F_tmpx, F_buildf, F_build2g, F_Kick1,
    <<F_tmpx[1]>>, <<F_buildf[1]>>, <<F_buildf[1], F_buildf[2]>>,
    <<F_build2g[1]>>, <<F_Kick1[1]>> }

PatternPool ==
  { P_wav, P_notkeep, P_tmp, P_build, P_secret, P_kicks, P_notkicks, P_q,
    P_roottxt }

RECURSIVE SeqsUpTo(_, _)
SeqsUpTo(S, n) ==
  IF n = 0 THEN {<<>>}
  ELSE LET shorter == SeqsUpTo(S, n - 1)
       IN shorter \cup {Append(q, x) : q \in shorter, x \in S}

InitMatch ==
  /\ m_path \in MatchPaths
  /\ m_patterns \in SeqsUpTo(PatternPool, MaxPatterns)
  /\ m_verdict = FALSE
  /\ m_done = FALSE
  /\ files = {}
  /\ gitignore = NoGitignore
  /\ StoreAtRest
  /\ BuildAtRest

\* One call matches_patterns(rel_path, patterns).
Match ==
  /\ ~m_done
  /\ m_verdict' = matches_patterns(m_path, m_patterns)
  /\ m_done' = TRUE
  /\ UNCHANGED << m_path, m_patterns, files, gitignore, storeVars, buildVars >>

NextMatch == Match

SpecMatch == InitMatch /\ [][NextMatch]_vars

\* ------------------------------------------------- the builder, on its own

BuildUniverse ==
  { F_Kick1, F_kick2, F_Snare, F_readme, F_tmpx, F_basex, F_kA, F_ka, F_notes }

BuildIgnores == { NoGitignore, Gitignore(<<L_comment, L_blank, L_tmp>>) }

InitBuild ==
  /\ files \in {S \in SUBSET BuildUniverse : Cardinality(S) <= MaxBuildFiles}
  /\ gitignore \in BuildIgnores
  /\ BuildAtRest
  /\ StoreAtRest
  /\ MatchAtRest

\* One call build_manifest(root, BASE_URL): it loads the patterns, walks the
\* tree in whatever order the file system lists it, and returns the mapping.
Build ==
  /\ Len(built) < 2
  /\ \E walk \in iter_all_files(files, load_gitignore_patterns(gitignore)) :
       /\ built' = Append(built, build_manifest(walk, BASE_URL))
       /\ scanned' = {walk[i] : i \in 1..Len(walk)}
  /\ UNCHANGED << files, gitignore, storeVars, matchVars, s_done, hashed >>

NextBuild == Build

SpecBuild == InitBuild /\ [][NextBuild]_vars

\* ------------------------------------------------- the scanner, on its own

ScanUniverse ==
  { F_Kick1, F_keep, F_hid, F_secret, F_nsecret, F_buildf, F_build2g, F_tmpx,
    F_readme }

ScanIgnores ==
  { NoGitignore,
    Gitignore(<<P_build>>), Gitignore(<<P_tmp>>),
    Gitignore(<<P_notf, P_build>>), Gitignore(<<P_build, P_notf>>),
    Gitignore(<<P_secret>>), Gitignore(<<P_roottxt>>),
    Gitignore(<<P_notkeep, P_wav>>), Gitignore(<<P_sub>>),
    Gitignore(<<L_comment, P_kicks>>) }

InitScan ==
  /\ files \in {S \in SUBSET ScanUniverse : Cardinality(S) <= MaxScanFiles}
  /\ gitignore \in ScanIgnores
  /\ BuildAtRest
  /\ StoreAtRest
  /\ MatchAtRest

\* One run through iter_all_files(root, ignore_patterns), in whatever order
\* the file system lists the entries.
Scan ==
  /\ ~s_done
  /\ \E walk \in iter_all_files(files, load_gitignore_patterns(gitignore)) :
       scanned' = {walk[i] : i \in 1..Len(walk)}
  /\ s_done' = TRUE
  /\ UNCHANGED << files, gitignore, storeVars, matchVars, built, hashed >>

NextScan == Scan

SpecScan == InitScan /\ [][NextScan]_vars

\* -------------------------------------------------- the hasher, on its own

HashUniverse ==
  { F_Kick1, F_kick2, F_Snare, F_readme, F_tmpx, F_kA, F_ka }

InitHash ==
  /\ files \in {S \in SUBSET HashUniverse : Cardinality(S) <= MaxHashFiles}
  /\ gitignore \in BuildIgnores
  /\ BuildAtRest
  /\ StoreAtRest
  /\ MatchAtRest

\* One call compute_tree_hash(root, ignore_patterns), over the walk the file
\* system gives it.
Hash ==
  /\ Len(hashed.hashes) < 2
  /\ \E walk \in iter_all_files(files, load_gitignore_patterns(gitignore)) :
       /\ hashed' = [hashes |-> Append(hashed.hashes, compute_tree_hash(walk)),
                     first |-> IF hashed.hashes = <<>> THEN walk ELSE hashed.first,
                     differ |-> hashed.hashes # <<>> /\ walk # hashed.first]
       /\ scanned' = {walk[i] : i \in 1..Len(walk)}
  /\ UNCHANGED << files, gitignore, storeVars, matchVars, built, s_done >>

NextHash == Hash

SpecHash == InitHash /\ [][NextHash]_vars

\* ------------------------------------------------------ the manifest store

\* value + "\n"
PlusNewline(value) == [value EXCEPT !.tail = @ \o <<"\n">>]

\* str.strip() of a hash string: the digest has no whitespace of its own.
StrStrip(text) == [text EXCEPT !.tail = RStrip(@)]

\* read_stored_hash with the .strip() forgotten.
read_stored_hash_NoStrip(hf) ==
  IF ~hf.exists THEN PyNone
  ELSE IF ~hf.readable THEN PyNone
  ELSE hf.text

\* read_stored_hash: None when the file is absent or cannot be read.
read_stored_hash(hf) ==
  IF ~hf.exists THEN PyNone
  ELSE IF ~hf.readable THEN PyNone
  ELSE StrStrip(hf.text)

\* write_stored_hash storing the digest of something else than the tree.
write_stored_hash_Other(value) == HashFile(PlusNewline(HexDigest(<<"?">>)))

\* write_stored_hash: the value and a newline.
write_stored_hash(value) == HashFile(PlusNewline(value))

\* Line 182 without its comparison of the two hashes.
ShouldGenerate_NoCompare(stored_hash, current_hash, hash_exists, manifest_exists) ==
  ~hash_exists \/ ~manifest_exists

\* Line 182 without its test for the manifest.
ShouldGenerate_NoManifestTest(stored_hash, current_hash, hash_exists, manifest_exists) ==
  stored_hash # current_hash \/ ~hash_exists

\* Line 182: should_generate.
ShouldGenerate(stored_hash, current_hash, hash_exists, manifest_exists) ==
  stored_hash # current_hash \/ ~hash_exists \/ ~manifest_exists

RECURSIVE Digits(_)
Digits(n) ==
  IF n < 10 THEN <<Ascii[Code("0") + n]>>
  ELSE Digits(n \div 10) \o <<Ascii[Code("0") + (n % 10)]>>

\* datetime.now(timezone.utc).strftime("%Y%m%dT%H%M%SZ"): the clock counts
\* the seconds of one minute; the date, hour and minute are fixed.
Strftime(t) ==
  <<"2", "0", "2", "4", "0", "1", "0", "1", "T", "0", "0", "0", "0">>
  \o (IF t < 10 THEN <<"0">> ELSE <<>>) \o Digits(t) \o <<"Z">>

\* Line 152: f"strudel.{ts}.json"
ArchiveName(ts) ==
  <<"s", "t", "r", "u", "d", "e", "l", ".">> \o ts \o <<".", "j", "s", "o", "n">>

\* What os.walk finds under the root: the tree's files and the tool's own.
TreePaths ==
  files
  \cup (IF manifest.exists THEN {<<MANIFEST_FILENAME>>} ELSE {})
  \cup (IF hashfile.exists THEN {<<HASH_FILENAME>>} ELSE {})
  \cup (IF gitignore.exists THEN {<<GITIGNORE_FILENAME>>} ELSE {})
  \cup {<<ARCHIVE_DIRNAME, n>> : n \in DOMAIN archive}

Record(i, res) ==
  LET entry == [result |-> res,
                stale |-> ShouldGenerate(read_stored_hash(snap[i].hashfile),
                                         snap[i].current, snap[i].hashfile.exists,
                                         snap[i].manifest.exists),
                archived |-> archive # snap[i].archive,
                same |-> manifest = snap[i].manifest]
  IN IF Len(hist) < MaxHist THEN Append(hist, entry)
     ELSE Append(Tail(hist), entry)

\* Lines 172-186: main loads the patterns, hashes the tree, reads the stored
\* hash and decides; when nothing is to be generated it returns 0 at once.
Start(i) ==
  /\ pc[i] = "idle"
  /\ \E walk \in iter_all_files(TreePaths, load_gitignore_patterns(gitignore)) :
       LET current_hash == compute_tree_hash(walk)
           stored_hash == read_stored_hash(hashfile)
           should_generate == ShouldGenerate(stored_hash, current_hash,
                                             hashfile.exists, manifest.exists)
       IN /\ cur' = [cur EXCEPT ![i] = IF should_generate THEN current_hash ELSE PyNone]
          /\ snap' = [j \in Procs |->
                        IF j = i
                          THEN [NoSnap EXCEPT !.taken = TRUE, !.manifest = manifest,
                                              !.hashfile = hashfile, !.archive = archive,
                                              !.current = current_hash,
                                              !.orphaned = snap[i].killedAt = "build"
                                                           /\ snap[i].moved,
                                              !.afterEdit = snap[i].edited,
                                              !.overlapped = \E k \in Procs \ {i} :
                                                               pc[k] # "idle"]
                        ELSE IF pc[j] # "idle"
                          THEN [snap[j] EXCEPT !.overlapped = TRUE]
                        ELSE snap[j]]
          /\ IF should_generate
               THEN /\ pc' = [pc EXCEPT ![i] = "archive"]
                    /\ result' = [result EXCEPT ![i] = "running"]
                    /\ hist' = hist
               ELSE /\ pc' = [pc EXCEPT ![i] = "idle"]
                    /\ result' = [result EXCEPT ![i] = "uptodate"]
                    /\ hist' = IF Len(hist) < MaxHist
                                 THEN Append(hist, [result |-> "uptodate", stale |-> FALSE,
                                                    archived |-> FALSE, same |-> TRUE])
                                 ELSE Append(Tail(hist), [result |-> "uptodate", stale |-> FALSE,
                                                          archived |-> FALSE, same |-> TRUE])
  /\ UNCHANGED << files, content, gitignore, manifest, hashfile, archive, clock,
                  matchVars, buildVars >>

\* archive_existing_manifest without its test of line 147: it goes on to the
\* move whether or not there is a manifest.
ArchiveCheck_AlwaysMove(i) ==
  /\ pc[i] = "archive"
  /\ pc' = [pc EXCEPT ![i] = "move"]
  /\ UNCHANGED << files, content, gitignore, manifest, hashfile, archive, clock, cur,
                  result, snap, hist, matchVars, buildVars >>

\* Lines 147-148: archive_existing_manifest returns when there is no manifest.
ArchiveCheck(i) ==
  /\ pc[i] = "archive"
  /\ pc' = [pc EXCEPT ![i] = IF manifest.exists THEN "move" ELSE "build"]
  /\ UNCHANGED << files, content, gitignore, manifest, hashfile, archive, clock, cur,
                  result, snap, hist, matchVars, buildVars >>

\* Lines 149-153: the directory is made, the name is taken from the clock and
\* the manifest is moved there; shutil.move replaces a file of that name, and
\* raises when the manifest is gone.
ArchiveMove(i) ==
  /\ pc[i] = "move"
  /\ LET target == ArchiveName(Strftime(clock)) IN
       IF manifest.exists
         THEN /\ archive' = [n \in DOMAIN archive \cup {target} |->
                               IF n = target THEN manifest.data ELSE archive[n]]
              /\ manifest' = NoManifest
              /\ pc' = [pc EXCEPT ![i] = "build"]
              /\ snap' = [snap EXCEPT ![i].name = target, ![i].moved = TRUE,
                                      ![i].overwrote = target \in DOMAIN archive]
              /\ UNCHANGED << result, hist, cur >>
         ELSE /\ pc' = [pc EXCEPT ![i] = "idle"]
              /\ cur' = [cur EXCEPT ![i] = PyNone]
              /\ result' = [result EXCEPT ![i] = "failed"]
              /\ hist' = <<>>
              /\ UNCHANGED << archive, manifest, snap >>
  /\ UNCHANGED << files, content, gitignore, hashfile, clock, matchVars, buildVars >>

\* The archive step's error swallowed, the run going on to build.
ArchiveFail_Swallowed(i) ==
  /\ pc[i] = "move"
  /\ pc' = [pc EXCEPT ![i] = "build"]
  /\ snap' = [snap EXCEPT ![i].archiveFailed = TRUE]
  /\ UNCHANGED << files, content, gitignore, manifest, hashfile, archive, clock, cur,
                  result, hist, matchVars, buildVars >>

\* Lines 150 and 153 raising (the directory cannot be made, the file cannot be
\* moved): nothing catches it, main ends with the exception.
ArchiveFail(i) ==
  /\ pc[i] = "move"
  /\ pc' = [pc EXCEPT ![i] = "idle"]
  /\ result' = [result EXCEPT ![i] = "failed"]
  /\ snap' = [snap EXCEPT ![i].archiveFailed = TRUE]
  /\ cur' = [cur EXCEPT ![i] = PyNone]
  /\ hist' = <<>>
  /\ UNCHANGED << files, content, gitignore, manifest, hashfile, archive, clock,
                  matchVars, buildVars >>

\* Lines 192-195: the manifest is built from a fresh walk and written.
WriteManifest(i) ==
  /\ pc[i] = "build"
  /\ \E walk \in iter_all_files(TreePaths, load_gitignore_patterns(gitignore)) :
       manifest' = ManifestFile(JsonText(build_manifest(walk, BASE_URL)))
  /\ pc' = [pc EXCEPT ![i] = "store"]
  /\ UNCHANGED << files, content, gitignore, hashfile, archive, clock, cur, result, snap,
                  hist, matchVars, buildVars >>

\* Lines 198-201: the hash computed at the start is stored; main returns 0.
StoreHash(i) ==
  /\ pc[i] = "store"
  /\ hashfile' = write_stored_hash(cur[i])
  /\ pc' = [pc EXCEPT ![i] = "idle"]
  /\ result' = [result EXCEPT ![i] = "written"]
  /\ hist' = Record(i, "written")
  /\ cur' = [cur EXCEPT ![i] = PyNone]
  /\ UNCHANGED << files, content, gitignore, manifest, archive, clock, snap,
                  matchVars, buildVars >>

\* The process killed between two steps of a regeneration.
Interrupt(i) ==
  /\ pc[i] \in {"archive", "move", "build", "store"}
  /\ snap' = [snap EXCEPT ![i].killedAt = pc[i]]
  /\ pc' = [pc EXCEPT ![i] = "idle"]
  /\ result' = [result EXCEPT ![i] = "killed"]
  /\ cur' = [cur EXCEPT ![i] = PyNone]
  /\ hist' = <<>>
  /\ UNCHANGED << files, content, gitignore, manifest, hashfile, archive, clock,
                  matchVars, buildVars >>

Run(i) ==
  \/ Start(i)
  \/ ArchiveCheck(i)
  \/ ArchiveMove(i)
  \/ ArchiveFail(i)
  \/ WriteManifest(i)
  \/ StoreHash(i)
  \/ Interrupt(i)

\* ------------------------------------------------------- the environment

StoreIgnores == { NoGitignore, Gitignore(<<L_comment, P_manifest>>) }

OldText == <<"o", "l", "d">>

\* A manifest and a hash left by an earlier deployment.
LegacyManifest == ManifestFile(JsonText(<< <<BASE_KEY, StrVal(OldText)>> >>))
LegacyHashFile == HashFile(PlusNewline(HexDigest(OldText)))

AtRest == \A i \in Procs : pc[i] = "idle"

\* An outside change ends what the history variables tell of the last runs.
Forget ==
  /\ snap' = [i \in Procs |-> NoSnap]
  /\ result' = [i \in Procs |-> "none"]
  /\ hist' = <<>>

\* A file is added to the tree or removed from it, between runs.
ChangeTree ==
  /\ AtRest
  /\ \E f \in StoreUniverse :
       /\ files' = IF f \in files THEN files \ {f} ELSE files \cup {f}
       /\ content' = [content EXCEPT ![f] = 0]
  /\ Forget
  /\ UNCHANGED << gitignore, manifest, hashfile, archive, clock, pc, cur,
                  matchVars, buildVars >>

\* The hash file is deleted or damaged, between runs.
DamageHash ==
  /\ AtRest
  /\ hashfile.exists /\ hashfile.readable
  /\ hashfile' \in {NoHashFile, CorruptHashFile}
  /\ Forget
  /\ UNCHANGED << files, content, gitignore, manifest, archive, clock, pc, cur,
                  matchVars, buildVars >>

\* The Stable state of the files as they are: a run started now would find
\* the stored hash equal to the tree's and the manifest in place.
StableNow ==
  /\ hashfile.exists
  /\ hashfile.readable
  /\ manifest.exists
  /\ \A walk \in iter_all_files(TreePaths, load_gitignore_patterns(gitignore)) :
       read_stored_hash(hashfile) = compute_tree_hash(walk)

\* An edit from outside, between runs: the history notes whether it was
\* made in the Stable state.
NoteEdit ==
  /\ snap' = [i \in Procs |-> [NoSnap EXCEPT !.edited = StableNow]]
  /\ result' = [i \in Procs |-> "none"]
  /\ hist' = <<>>

\* A file of the tree is rewritten in place (or touched): new bytes, new
\* mtime, the same name.
EditFile ==
  /\ AtRest
  /\ \E f \in files : content' = [content EXCEPT ![f] = 1 - @]
  /\ NoteEdit
  /\ UNCHANGED << files, gitignore, manifest, hashfile, archive, clock, pc, cur,
                  matchVars, buildVars >>

\* strudel.json is edited by hand: a line is added at its end.
EditManifest ==
  /\ AtRest
  /\ manifest.exists
  /\ manifest.data.trailing = <<"\n">>
  /\ manifest' = ManifestFile([manifest.data EXCEPT !.trailing = <<"\n", "\n">>])
  /\ NoteEdit
  /\ UNCHANGED << files, content, gitignore, hashfile, archive, clock, pc, cur,
                  matchVars, buildVars >>

\* A second passes.
Tick ==
  /\ clock < MaxClock
  /\ clock' = clock + 1
  /\ UNCHANGED << files, content, gitignore, manifest, hashfile, archive, pc, cur, result,
                  snap, hist, matchVars, buildVars >>

Init ==
  /\ files \in SUBSET StoreUniverse
  /\ content = FreshContent
  /\ gitignore \in StoreIgnores
  /\ manifest \in {NoManifest, LegacyManifest}
  /\ hashfile \in {NoHashFile, CorruptHashFile, LegacyHashFile}
  /\ archive = <<>>
  /\ clock = 0
  /\ pc = [i \in Procs |-> "idle"]
  /\ cur = [i \in Procs |-> PyNone]
  /\ result = [i \in Procs |-> "none"]
  /\ snap = [i \in Procs |-> NoSnap]
  /\ hist = <<>>
  /\ MatchAtRest
  /\ BuildAtRest

\* The caller runs one invocation at a time.
Next ==
  \/ Run(1)
  \/ ChangeTree
  \/ DamageHash
  \/ Tick

Spec == Init /\ [][Next]_vars

\* The same, every run going to its end: none is killed, no archive step fails.
NextComplete ==
  \/ Start(1)
  \/ ArchiveCheck(1)
  \/ ArchiveMove(1)
  \/ WriteManifest(1)
  \/ StoreHash(1)
  \/ ChangeTree
  \/ DamageHash
  \/ Tick

SpecComplete == Init /\ [][NextComplete]_vars

\* Complete runs, with files edited in place between them.
NextEdit ==
  \/ Start(1)
  \/ ArchiveCheck(1)
  \/ ArchiveMove(1)
  \/ WriteManifest(1)
  \/ StoreHash(1)
  \/ ChangeTree
  \/ EditFile
  \/ EditManifest

SpecEdit == Init /\ [][NextEdit]_vars

\* One tree, with or without an earlier manifest and hash.
InitConc ==
  /\ files = {F_Kick1}
  /\ content = FreshContent
  /\ gitignore = NoGitignore
  /\ manifest \in {NoManifest, LegacyManifest}
  /\ hashfile \in {NoHashFile, LegacyHashFile}
  /\ archive = <<>>
  /\ clock = 0
  /\ pc = [i \in Procs |-> "idle"]
  /\ cur = [i \in Procs |-> PyNone]
  /\ result = [i \in Procs |-> "none"]
  /\ snap = [i \in Procs |-> NoSnap]
  /\ hist = <<>>
  /\ MatchAtRest
  /\ BuildAtRest

\* Two invocations in one root, nothing keeping them apart: each step of
\* either can come between two steps of the other, all within one second.
NextConc ==
  \/ \E i \in Procs : Start(i)
  \/ \E i \in Procs : ArchiveCheck(i)
  \/ \E i \in Procs : ArchiveMove(i)
  \/ \E i \in Procs : WriteManifest(i)
  \/ \E i \in Procs : StoreHash(i)

SpecConc == InitConc /\ [][NextConc]_vars

\* ------------------------------------------------------------- properties

\* C1: two runs in succession with no outside change between them: the first
\* regenerates if the state was stale, the second reports up-to-date, makes no
\* archive entry and leaves the manifest as it was.
C1_SecondRunUpToDate ==
  Len(hist) >= 2 =>
    LET first == hist[Len(hist) - 1]
        second == hist[Len(hist)]
    IN /\ first.stale => first.result = "written"
       /\ second.result = "uptodate"
       /\ ~second.archived
       /\ second.same

\* C3: no step overwrites or removes an archive entry, and a step that takes
\* the manifest from its place adds exactly one entry, which holds it.
C3_ArchivePreserved ==
  [][ /\ \A n \in DOMAIN archive :
           n \in DOMAIN archive' /\ archive'[n] = archive[n]
      /\ (manifest.exists /\ ~manifest'.exists) =>
           /\ Cardinality(DOMAIN archive') = Cardinality(DOMAIN archive) + 1
           /\ \E n \in DOMAIN archive' \ DOMAIN archive :
                archive'[n] = manifest.data ]_vars

\* The Stable state, of the files a run found: the hash file is there, the
\* value stored in it is the hash just computed, the manifest is there.
StableSnap(sn) ==
  /\ sn.hashfile.exists
  /\ sn.hashfile.readable
  /\ StrStrip(sn.hashfile.text) = sn.current
  /\ sn.manifest.exists

\* C4: a run that starts in the Stable state changes neither the manifest nor
\* the hash file nor the archive, and ends with "up-to-date" and status 0.
C4_StableNoEffects ==
  \A i \in Procs :
    snap[i].taken /\ StableSnap(snap[i]) =>
      /\ pc[i] = "idle"
      /\ result[i] = "uptodate"
      /\ manifest = snap[i].manifest
      /\ hashfile = snap[i].hashfile
      /\ archive = snap[i].archive

C4_Witness ==
  /\ snap[1].taken
  /\ StableSnap(snap[1])
  /\ result[1] = "uptodate"
  /\ archive # <<>>

HashMissing(sn) == ~sn.hashfile.exists \/ ~sn.hashfile.readable

IsTimestamped(name) == \E t \in 0..clock : name = ArchiveName(Strftime(t))

\* The manifest at the canonical place is one build_manifest makes of the tree.
ManifestIsBuilt ==
  /\ manifest.exists
  /\ \E walk \in iter_all_files(TreePaths, load_gitignore_patterns(gitignore)) :
       manifest.data = JsonText(build_manifest(walk, BASE_URL))

HashPersisted(sn) ==
  /\ hashfile.exists
  /\ hashfile.readable
  /\ StrStrip(hashfile.text) = sn.current

\* C5: a run that finds the hash file absent or unreadable regenerates as for
\* a mismatch and does not fail for it: with a manifest in place, the run that
\* completes has archived it under a timestamped name, written a new manifest
\* and stored the current hash.
C5_MissingHashRegenerates ==
  \A i \in Procs :
    snap[i].taken /\ HashMissing(snap[i]) =>
      /\ result[i] # "uptodate"
      /\ result[i] = "failed" => snap[i].archiveFailed
      /\ (pc[i] = "idle" /\ result[i] = "written" /\ snap[i].manifest.exists) =>
           /\ snap[i].name \in DOMAIN archive
           /\ IsTimestamped(snap[i].name)
           /\ archive[snap[i].name] = snap[i].manifest.data
           /\ ManifestIsBuilt
           /\ HashPersisted(snap[i])

C5_Witness ==
  /\ snap[1].taken
  /\ snap[1].hashfile.exists
  /\ ~snap[1].hashfile.readable
  /\ snap[1].manifest.exists
  /\ pc[1] = "idle"
  /\ result[1] = "written"

\* C6: when the archive step fails the run ends there, in failure: the old
\* manifest is still in place with its content and the stored hash is as it was.
C6_ArchiveFailureAborts ==
  \A i \in Procs :
    snap[i].taken /\ snap[i].archiveFailed =>
      /\ pc[i] = "idle"
      /\ result[i] = "failed"
      /\ manifest.exists
      /\ manifest = snap[i].manifest
      /\ hashfile = snap[i].hashfile

C6_Witness ==
  /\ snap[1].taken
  /\ snap[1].archiveFailed
  /\ result[1] = "failed"
  /\ snap[1].hashfile.exists

\* C7: a run killed after the move and before the write leaves no manifest in
\* place; the run after it regenerates whatever hash is stored, adds nothing to
\* the archive, and ends with a manifest in place and its hash stored.
C7_SelfHeals ==
  \A i \in Procs :
    /\ (snap[i].taken /\ snap[i].moved /\ snap[i].killedAt = "build") =>
         ~manifest.exists
    /\ (snap[i].taken /\ snap[i].orphaned) =>
         /\ ~snap[i].manifest.exists
         /\ result[i] \in {"running", "written", "killed"}
         /\ (pc[i] = "idle" /\ result[i] = "written") =>
              /\ archive = snap[i].archive
              /\ ManifestIsBuilt
              /\ HashPersisted(snap[i])

\* The run after the kill found a stored hash equal to the one it computed.
C7_Witness ==
  /\ snap[1].taken
  /\ snap[1].orphaned
  /\ snap[1].hashfile.exists
  /\ snap[1].hashfile.readable
  /\ StrStrip(snap[1].hashfile.text) = snap[1].current
  /\ pc[1] = "idle"
  /\ result[1] = "written"

\* The verdict of the last pattern that matches, each match overwriting the
\* one before.
RECURSIVE LastMatchVerdict(_, _, _, _)
LastMatchVerdict(s, parts, patterns, verdict) ==
  IF patterns = <<>> THEN verdict
  ELSE LET pat == Head(patterns)
           negated == StartsWith(pat, <<"!">>)
           p == IF negated THEN Tail(pat) ELSE pat
       IN LastMatchVerdict(s, parts, Tail(patterns),
            IF PatternMatches(s, parts, p) THEN ~negated ELSE verdict)

\* C2: matches_patterns returns the verdict of the LAST pattern that matches
\* the path (negated: not excluded; plain: excluded; none: not excluded); with
\* ["*.wav", "!keep.wav"], keep.wav is not excluded and skip.wav is excluded.
C2_LastMatchWins ==
  m_done =>
    /\ m_verdict = LastMatchVerdict(AsPosix(m_path), m_path, m_patterns, FALSE)
    /\ (m_patterns = <<P_wav, P_notkeep>> /\ m_path = F_keep => ~m_verdict)
    /\ (m_patterns = <<P_wav, P_notkeep>> /\ m_path = F_skip => m_verdict)

\* C8: the mapping build_manifest returns has the base-URL key first, holding
\* the base URL, then every group key in case-sensitive ascending order, each
\* holding a list of paths.
C8_BaseKeyFirst ==
  \A k \in 1..Len(built) :
    LET od == built[k] IN
      /\ od[1] = <<BASE_KEY, StrVal(BASE_URL)>>
      /\ \A i \in 2..Len(od) :
           /\ od[i][2].kind = "list"
           /\ i > 2 => StrLess(od[i - 1][1], od[i][1])

\* The scanned paths the manifest is to list: the extension matches whatever
\* its case, the file lies in a directory, the top directory is not hidden.
Listed ==
  {p \in scanned : /\ EndsWith(Lower(AsPosix(p)), WAV_SUFFIX)
                   /\ Len(p) >= 2
                   /\ ~StartsWith(p[1], <<".">>)}

Occurrences(list, x) == Cardinality({j \in 1..Len(list) : list[j] = x})

\* C9: the groups hold exactly the listed paths, each once and in the group
\* named by its first segment, and every group is sorted case-insensitively;
\* in the scenario of kicks/Kick1.wav, kicks/kick2.WAV, snares/Snare.wav,
\* readme.wav and an ignored tmp/x.wav the groups are kicks and snares.
C9_GroupsExact ==
  \A k \in 1..Len(built) :
    LET od == built[k]
        groups == {i \in 1..Len(od) : od[i][2].kind = "list"}
    IN /\ \A p \in Listed :
            \E i \in groups :
              /\ od[i][1] = p[1]
              /\ Occurrences(od[i][2].list, AsPosix(p)) = 1
       /\ \A i \in groups :
            /\ \A j \in groups : od[j][1] = od[i][1] => j = i
            /\ \A j \in 1..Len(od[i][2].list) :
                 \E p \in Listed : AsPosix(p) = od[i][2].list[j] /\ p[1] = od[i][1]
            /\ \A j \in 1..(Len(od[i][2].list) - 1) :
                 ~StrLess(Casefold(od[i][2].list[j + 1]), Casefold(od[i][2].list[j]))
       /\ (files = {F_Kick1, F_kick2, F_Snare, F_readme, F_tmpx}
             /\ gitignore = Gitignore(<<L_comment, L_blank, L_tmp>>))
          => od = << <<BASE_KEY, StrVal(BASE_URL)>>,
                     <<F_Kick1[1], ListVal(<<AsPosix(F_Kick1), AsPosix(F_kick2)>>)>>,
                     <<F_Snare[1], ListVal(<<AsPosix(F_Snare)>>)>> >>

C9_Witness ==
  /\ files = {F_Kick1, F_kick2, F_Snare, F_readme, F_tmpx}
  /\ gitignore = Gitignore(<<L_comment, L_blank, L_tmp>>)
  /\ Len(built) = 2

\* C10: for one included file set build_manifest returns the identical mapping
\* whatever the order of the traversal.
C10_Deterministic ==
  Len(built) = 2 => built[1] = built[2]

RECURSIVE CountOf(_, _)
CountOf(bytes, c) ==
  IF bytes = <<>> THEN 0
  ELSE (IF Head(bytes) = c THEN 1 ELSE 0) + CountOf(Tail(bytes), c)

\* C11: two traversals that yield the same paths in different orders give the
\* same hash; one newline is fed for each path.
C11_HashOrderIndependent ==
  /\ Len(hashed.hashes) = 2 => hashed.hashes[1] = hashed.hashes[2]
  /\ \A k \in 1..Len(hashed.hashes) :
       CountOf(hashed.hashes[k].md5, "\n") = Cardinality(scanned)

C11_Witness ==
  /\ Len(hashed.hashes) = 2
  /\ hashed.differ
  /\ Cardinality(scanned) >= 3

\* The directories above a file: its proper, non-empty path prefixes.
Ancestors(f) == {SubSeq(f, 1, k) : k \in 1..(Len(f) - 1)}

Excluded(path) == matches_patterns(path, load_gitignore_patterns(gitignore))

\* C12: the scan yields a file exactly when no segment of its path is hidden,
\* the file does not match the patterns and none of its ancestor directories
\* does; nothing under a hidden or excluded directory is yielded, a negated
\* pattern for a file inside it notwithstanding.
C12_YieldedExactly ==
  s_done =>
    /\ scanned = {f \in files : /\ ~is_hidden(f)
                                /\ ~Excluded(f)
                                /\ \A d \in Ancestors(f) : ~Excluded(d)}
    /\ \A f \in files :
         (\E d \in Ancestors(f) : is_hidden(d) \/ Excluded(d)) => f \notin scanned

C12_Witness ==
  /\ s_done
  /\ gitignore = Gitignore(<<P_notf, P_build>>)
  /\ F_buildf \in files
  /\ ~Excluded(F_buildf)
  /\ F_buildf \notin scanned
  /\ F_hid \in files
  /\ scanned # {}

\* The .gitignore holds the one directory-style pattern D/.
OnlyDirPattern(D) ==
  load_gitignore_patterns(gitignore) = <<D \o <<"/">>>>

UnderDir(path, D) ==
  AsPosix(path) = D \/ StartsWith(AsPosix(path), D \o <<"/">>)

\* C13: the single pattern D/ excludes exactly the paths equal to D or under
\* D/; with build/ alone the scan yields nothing of build or build/sub and
\* yields build2/g.wav.
C13_DirPattern ==
  \A D \in {RStripSlash(P_build), RStripSlash(P_tmp)} :
    OnlyDirPattern(D) =>
      /\ \A f \in files : \A path \in Ancestors(f) \cup {f} :
           Excluded(path) <=> UnderDir(path, D)
      /\ s_done =>
           scanned = {f \in files : ~is_hidden(f) /\ ~UnderDir(f, D)}

C13_Witness ==
  /\ s_done
  /\ OnlyDirPattern(RStripSlash(P_build))
  /\ {F_buildf, F_build2g} \subseteq files
  /\ Excluded(<<F_buildf[1]>>)
  /\ Excluded(<<F_buildf[1], F_buildf[2]>>)
  /\ F_buildf \notin scanned
  /\ F_build2g \in scanned

\* C14: a pattern with a leading "/" is matched against "/" + the whole
\* relative path only: /secret.txt excludes secret.txt and does not exclude
\* nested/secret.txt.
C14_Anchored ==
  m_done =>
    /\ \A p \in {P_secret, P_roottxt} :
         m_patterns = <<p>> =>
           m_verdict = fnmatch(<<"/">> \o AsPosix(m_path), p)
    /\ m_patterns = <<P_secret>> => (m_verdict <=> m_path = F_secret)

C14_Witness ==
  /\ m_done
  /\ m_patterns = <<P_secret>>
  /\ m_path = F_nsecret
  /\ ~m_verdict

\* C15: the hash is of the path names alone: after an edit made in the Stable
\* state that changes the bytes of a tree file or of strudel.json and no name,
\* the next run finds the Stable state again, reports up-to-date and changes
\* nothing.
C15_ContentIgnored ==
  \A i \in Procs :
    snap[i].taken /\ snap[i].afterEdit =>
      /\ StableSnap(snap[i])
      /\ pc[i] = "idle"
      /\ result[i] = "uptodate"
      /\ manifest = snap[i].manifest
      /\ hashfile = snap[i].hashfile
      /\ archive = snap[i].archive

C15_Witness ==
  /\ snap[1].taken
  /\ snap[1].afterEdit
  /\ result[1] = "uptodate"
  /\ manifest.data.trailing # <<"\n">>
  /\ \E f \in files : content[f] = 1

\* C16: whenever a run reports up-to-date, strudel.json holds what
\* build_manifest returns for the tree as it stands, runs killed between two
\* steps of a regeneration included.
C16_UpToDateIsCurrent ==
  \A i \in Procs :
    (pc[i] = "idle" /\ result[i] = "uptodate") =>
      /\ manifest.exists
      /\ \E walk \in iter_all_files(TreePaths, load_gitignore_patterns(gitignore)) :
           manifest.data = JsonText(build_manifest(walk, BASE_URL))

Regenerated(k) == hist[k].result = "written"

UpToDate(k) == hist[k].result = "uptodate"

\* C17: with no change from outside and every run complete, at most two runs
\* in a row regenerate; the run after them reports up-to-date, and after a
\* run that reported up-to-date every run does, archiving nothing and leaving
\* the manifest as it was.
C17_SettlesInTwoRuns ==
  /\ \A k \in 1..Len(hist) :
       UpToDate(k) => /\ ~hist[k].archived
                      /\ hist[k].same
                      /\ k < Len(hist) => UpToDate(k + 1)
                      /\ k = Len(hist) => result[1] = "uptodate"
  /\ \A k \in 1..(Len(hist) - 1) :
       (Regenerated(k) /\ Regenerated(k + 1)) =>
         /\ k + 1 < Len(hist) => UpToDate(k + 2)
         /\ k + 1 = Len(hist) => result[1] # "running"

C17_Witness ==
  /\ Len(hist) >= 3
  /\ Regenerated(Len(hist) - 2)
  /\ Regenerated(Len(hist) - 1)
  /\ UpToDate(Len(hist))
  /\ archive # <<>>

\* C18: a run that no other invocation overlapped does not fail at the move,
\* and while it goes on the manifest it found is in the archive under the name
\* it gave; runs that overlap can fail at the move and can replace an entry.
C18_SerializedRunsSafe ==
  \A i \in Procs :
    /\ result[i] = "failed" => snap[i].overlapped
    /\ (snap[i].taken /\ ~snap[i].overlapped /\ snap[i].moved /\ pc[i] # "idle") =>
         /\ snap[i].name \in DOMAIN archive
         /\ archive[snap[i].name] = snap[i].manifest.data
         /\ pc[i] = "build" => ~manifest.exists

\* One invocation failed at the move, the other had replaced an archive entry.
C18_Witness ==
  /\ result[1] = "failed"
  /\ snap[1].overlapped
  /\ snap[2].overlapped
  /\ snap[2].overwrote
  /\ LegacyManifest.data \notin {archive[n] : n \in DOMAIN archive}
  /\ snap[2].archive # <<>>
  /\ \E n \in DOMAIN snap[2].archive : snap[2].archive[n] = LegacyManifest.data

====
